---- MODULE Spec2Model ----
(***************************************************************************)
(* The Tokens listing screen of hathor-explorer: cursor-based pagination   *)
(* over a search backend.  Two revisions of the component are modelled:    *)
(*   version 1 = src/src/components/token/Tokens.js                         *)
(*               (search runs inside the async onSearchButtonClicked)       *)
(*   version 2 = src/unnamed/part_001                                       *)
(*               (search runs inside an effect keyed on isSearchLoading)    *)
(* A handler reads the state of the render it was created in; what an      *)
(* async handler does after its await still reads that render's values.    *)
(* Each fetch in flight therefore carries the values its continuation has  *)
(* captured.                                                               *)
(***************************************************************************)
EXTENDS Integers, Sequences, FiniteSets, TLC

VARIABLES
  version,          \* 1: Tokens.js, 2: part_001
  maintenanceMode,  \* prop
  mounted,          \* the mount effect has run
  url,              \* query parameters of the current URL
  tokens, hasAfter, hasBefore, searchText, sortBy, order, page,
  pageSearchAfter, isLoading, isSearchLoading, calculatingPage, error,
  inflight,         \* calls of tokensApi.getList not yet answered
  fetchCount,       \* number of calls of tokensApi.getList so far
  fetchLimit,       \* number of calls of tokensApi.getList a behaviour is followed for
  data,             \* dashboard reducer: state.data
  arrivals,         \* history: every 'dashboard_update' payload so far, in arrival order
  walletMounted,    \* Wallet: componentDidMount has run
  checkPending,     \* Wallet: helpers.checkWalletLock not yet answered
  walletType, lockDisabled,   \* Wallet: this.state
  warning,          \* Wallet: this.state.warning, <<>> for null
  locked,           \* Wallet: this.state.locked: Null, "true" or "false"
  lockRequests,     \* Wallet: calls of walletApi.lock() not yet settled
  walletEvent,      \* history: the last Wallet step
  tokensQuery,      \* history: the query of the fetch whose rows are displayed
  entryOrigin,      \* history: for each cursor-table entry, the page, rows and query it was computed from
  onlyForward,      \* history: no previous-page click so far
  sequential,       \* history: no user action was taken while a fetch was in flight
  lastEvent         \* history: the step just taken

state == <<tokens, hasAfter, hasBefore, searchText, sortBy, order, page,
           pageSearchAfter, isLoading, isSearchLoading, calculatingPage, error>>
hist == <<tokensQuery, entryOrigin, onlyForward, sequential, lastEvent>>
dashboard == <<data, arrivals>>
wallet == <<walletMounted, checkPending, walletType, lockDisabled, warning, locked,
            lockRequests, walletEvent>>
vars == <<version, maintenanceMode, mounted, url, state, inflight, fetchCount, fetchLimit,
          hist, dashboard, wallet>>

----------------------------------------------------------------------------
\* Bounds of the model

\* Calls of tokensApi.getList in one behaviour
MaxFetches == 3
\* Calls of tokensApi.getList in flight at the same time
MaxInflight == 2
\* Calls of tokensApi.getList in one behaviour of the long page-turn runs
MaxDeepFetches == 7

----------------------------------------------------------------------------
\* Values

\* JavaScript undefined / null
Null == "<null>"
\* A query parameter the URL does not carry
Absent == "<absent>"

Texts == {"", "hathor"}
Headers == {"transaction_timestamp", "name"}
Orders == {"asc", "desc"}

\* Rows as the backend returns them: `sort` is the search-after key of the row,
\* `nft` is optional.
Row1 == [id |-> "t1", sort |-> <<1>>]
Row2 == [id |-> "t2", sort |-> <<2>>, nft |-> TRUE]

\* Result pages of the backend
ResultPages == { <<>>, <<Row1, Row2>> }

\* What tokensApi.getList may resolve to: a page of rows (has_next only with
\* rows), or an error without data.
ErrorResponse == [error |-> TRUE, hasData |-> FALSE, hits |-> <<>>, has_next |-> FALSE]
DataResponses ==
  { [error |-> FALSE, hasData |-> TRUE, hits |-> h, has_next |-> n] :
      h \in ResultPages, n \in BOOLEAN }
Responses ==
  { r \in DataResponses : r.has_next => r.hits # <<>> } \cup {ErrorResponse}

\* URLs the screen may be opened with
InitialURLs ==
  { [searchText |-> Absent, sortBy |-> Absent, order |-> Absent],
    [searchText |-> "hathor", sortBy |-> "name", order |-> Absent] }

NoQuery == <<Null, Null, Null>>
NoRequest == [id |-> 0, kind |-> Null, text |-> Null, sortBy |-> Null, order |-> Null,
              searchAfter |-> <<>>, targetPage |-> 0, fromPage |-> 0,
              urlText |-> Null, urlSortBy |-> Null, urlOrder |-> Null, cursorQuery |-> NoQuery]
NoResponse == [error |-> FALSE, hasData |-> FALSE, hits |-> <<>>, has_next |-> FALSE]
NoParams == [searchText |-> Absent, sortBy |-> Absent, order |-> Absent]

Event(type, arg, req, resp, params) ==
  [type |-> type, arg |-> arg, req |-> req, resp |-> resp, queryParams |-> params]

----------------------------------------------------------------------------
\* Helpers of the code

\* a || b
Or(a, b) == IF a \in {"", Null} THEN b ELSE a

\* lodash get(queryParams, key, default)
GetParam(v, default) == IF v = Absent THEN default ELSE v

\* hits.map(token => ({...token, uid: token.id, nft: get(token, 'nft', false)}))
mapToken(t) ==
  [id |-> t.id, sort |-> t.sort, uid |-> t.id,
   nft |-> IF "nft" \in DOMAIN t THEN t.nft ELSE FALSE]
mapHits(hits) == [i \in 1..Len(hits) |-> mapToken(hits[i])]

\* get(tokensRequest, 'error', false)
errorOf(resp) == resp.error
\* get(tokensRequest, 'data', { hits: [], has_next: false }) followed by the map
dataOf(resp) ==
  IF resp.hasData THEN [hits |-> mapHits(resp.hits), has_next |-> resp.has_next]
  ELSE [hits |-> <<>>, has_next |-> FALSE]

\* find(pageSearchAfter, { page: p }): index of the first entry of page p, 0 if none
findIndex(table, p) ==
  IF \E i \in 1..Len(table) : table[i].page = p
  THEN CHOOSE i \in 1..Len(table) :
         /\ table[i].page = p
         /\ \A j \in 1..(i - 1) : table[j].page # p
  ELSE 0
\* get(find(pageSearchAfter, { page: p }), 'searchAfter', [])
lookupSearchAfter(table, p) ==
  IF findIndex(table, p) = 0 THEN <<>> ELSE table[findIndex(table, p)].searchAfter

\* Variant: first(tokens) in place of last(tokens)
firstTokenSort(rows) == IF rows = <<>> THEN <<>> ELSE rows[1].sort
\* get(last(tokens), 'sort', [])
lastTokenSort(rows) == IF rows = <<>> THEN <<>> ELSE rows[Len(rows)].sort

\* pagination.current.setURLParameters + history.push
updateURL(t, s, o) == [searchText |-> t, sortBy |-> s, order |-> o]

\* renderSearchField / renderTokensTable
renderSearchField == IF maintenanceMode THEN "maintenance" ELSE "searchField"
\* Variant: the table is rendered whatever error is
renderTokensTableNoError == IF maintenanceMode THEN "null" ELSE "table"
renderTokensTable ==
  IF maintenanceMode THEN "null" ELSE IF error THEN "error" ELSE "table"

\* TokensTable (not part of the sources) gets hasAfter / hasBefore to decide
\* which page buttons can be used.
nextEnabled == hasAfter
previousEnabled == hasBefore

----------------------------------------------------------------------------
\* Initial state: useState defaults, nothing fetched

InitState ==
  /\ mounted = FALSE
  /\ tokens = <<>>
  /\ hasAfter = FALSE
  /\ hasBefore = FALSE
  /\ searchText = ""
  /\ sortBy = "transaction_timestamp"
  /\ order = "desc"
  /\ page = 1
  /\ pageSearchAfter = <<>>
  /\ isLoading = FALSE
  /\ isSearchLoading = FALSE
  /\ calculatingPage = FALSE
  /\ error = FALSE
  /\ inflight = {}
  /\ fetchCount = 0
  /\ data = <<>>
  /\ arrivals = <<>>
  /\ tokensQuery = NoQuery
  /\ entryOrigin = <<>>
  /\ onlyForward = TRUE
  /\ sequential = TRUE
  /\ lastEvent = Event("init", Null, NoRequest, NoResponse, NoParams)
  /\ walletMounted = FALSE
  /\ checkPending = FALSE
  /\ walletType = ""
  /\ lockDisabled = FALSE
  /\ warning = <<>>
  /\ locked = Null
  /\ lockRequests = {}
  /\ walletEvent = [type |-> "init"]

Init ==
  /\ version \in {1, 2}
  /\ maintenanceMode \in BOOLEAN
  /\ url \in InitialURLs
  /\ fetchLimit = MaxFetches
  /\ InitState

----------------------------------------------------------------------------
\* Fetches

\* tokensApi.getList(text, sortBy, order, searchAfter), with what the caller's
\* continuation has captured: the page it will set and the arguments of the
\* URL push that belongs to a search (made after the answer in version 1, with
\* the request in version 2).
Request(kind, t, s, o, searchAfter, targetPage, ut, us, uo, cq) ==
  [id |-> fetchCount' , kind |-> kind, text |-> t, sortBy |-> s, order |-> o,
   searchAfter |-> searchAfter, targetPage |-> targetPage, fromPage |-> page,
   urlText |-> ut, urlSortBy |-> us, urlOrder |-> uo, cursorQuery |-> cq]

queryOf(r) == <<r.text, r.sortBy, r.order>>

CanFetch == fetchCount < fetchLimit /\ Cardinality(inflight) < MaxInflight

\* Version 1, getTokens([]) from onSearchButtonClicked(newSearchText, newSortBy,
\* newOrder): the request reads searchText, sortBy and order of the render the
\* handler belongs to; the arguments only reach updateURL.
searchRequestV1(newSearchText, newSortBy, newOrder) ==
  Request("search", searchText, sortBy, order, <<>>, 1,
          Or(newSearchText, searchText), Or(newSortBy, sortBy), Or(newOrder, order),
          NoQuery)

\* Version 2, the search effect: getTokens([], searchText, sortBy, order) of the
\* render that follows the state change.
searchRequestV2(t, s, o) ==
  Request("search", t, s, o, <<>>, 1, Or(t, ""), Or(s, ""), Or(o, ""), NoQuery)

\* Variant: the effect without isSearchLoading among its dependencies
searchEffectRunsOnQueryChange ==
  /\ version = 2
  /\ <<searchText, sortBy, order>>' # <<searchText, sortBy, order>>
  /\ isSearchLoading'

\* Version 2: the effect with dependencies [isSearchLoading, searchText, sortBy,
\* order] runs after a render that changed one of them, and does nothing unless
\* isSearchLoading is set.
searchEffectRuns ==
  /\ version = 2
  /\ <<isSearchLoading, searchText, sortBy, order>>' # <<isSearchLoading, searchText, sortBy, order>>
  /\ isSearchLoading'

\* The part of a version 2 step that the search effect decides: the URL push
\* and the fetch, on top of the fetches `base` the step leaves in flight.
searchEffect(base) ==
  IF searchEffectRuns
  THEN /\ fetchCount' = fetchCount + 1
       /\ LET req == searchRequestV2(searchText', sortBy', order')
          IN /\ url' = updateURL(req.urlText, req.urlSortBy, req.urlOrder)
             /\ inflight' = base \cup {req}
  ELSE /\ url' = url
       /\ fetchCount' = fetchCount
       /\ inflight' = base

userStep == sequential' = (sequential /\ inflight = {})

----------------------------------------------------------------------------
\* Mount effect

\* Variant: the mount effect without its maintenance check
mountNeverAborts == FALSE
\* if (maintenanceMode) return;
mountAborts == maintenanceMode

\* Defaults of the query fields the URL does not carry
defaultSearchText == IF version = 1 THEN searchText ELSE ""
defaultSortBy == IF version = 1 THEN sortBy ELSE ""
defaultOrder == IF version = 1 THEN order ELSE ""

Mount ==
  /\ ~mounted
  /\ mounted' = TRUE
  /\ lastEvent' = Event("mount", Null, NoRequest, NoResponse, url)
  /\ UNCHANGED <<version, maintenanceMode, fetchLimit, dashboard, wallet, tokens, hasAfter, hasBefore, page, pageSearchAfter,
                 calculatingPage, error, tokensQuery, entryOrigin, onlyForward>>
  /\ userStep
  /\ IF mountAborts
     THEN UNCHANGED <<url, searchText, sortBy, order, isLoading, isSearchLoading,
                      inflight, fetchCount>>
     ELSE /\ searchText' = GetParam(url.searchText, defaultSearchText)
          /\ sortBy' = GetParam(url.sortBy, defaultSortBy)
          /\ order' = GetParam(url.order, defaultOrder)
          /\ isLoading' = FALSE
          /\ isSearchLoading' = TRUE
          /\ IF version = 1
             THEN /\ fetchCount' = fetchCount + 1
                  /\ inflight' = inflight \cup {searchRequestV1(searchText', sortBy', order')}
                  /\ url' = url
             ELSE searchEffect(inflight)

----------------------------------------------------------------------------
\* Search field handlers

searchFieldUsable == mounted /\ renderSearchField = "searchField"
tableUsable == mounted /\ renderTokensTable = "table"

\* Search button and Enter key: onSearchButtonClicked() in version 1,
\* setIsSearchLoading(true) in version 2.
submitSearch(type) ==
  /\ searchFieldUsable
  /\ CanFetch
  /\ lastEvent' = Event(type, Null, NoRequest, NoResponse, NoParams)
  /\ isSearchLoading' = TRUE
  /\ UNCHANGED <<version, maintenanceMode, fetchLimit, dashboard, wallet, mounted, tokens, hasAfter, hasBefore, searchText,
                 sortBy, order, page, pageSearchAfter, isLoading, calculatingPage, error,
                 tokensQuery, entryOrigin, onlyForward>>
  /\ userStep
  /\ IF version = 1
     THEN /\ fetchCount' = fetchCount + 1
          /\ inflight' = inflight \cup {searchRequestV1(Null, Null, Null)}
          /\ url' = url
     ELSE searchEffect(inflight)

onSearchButtonClicked == submitSearch("search")
onSearchTextKeyUp == submitSearch("search")

onSearchTextChanged(value) ==
  /\ searchFieldUsable
  /\ value # searchText
  /\ (version = 2 /\ isSearchLoading) => CanFetch
  /\ lastEvent' = Event("textChanged", value, NoRequest, NoResponse, NoParams)
  /\ searchText' = value
  /\ UNCHANGED <<version, maintenanceMode, fetchLimit, dashboard, wallet, mounted, tokens, hasAfter, hasBefore,
                 sortBy, order, page, pageSearchAfter, isLoading, isSearchLoading,
                 calculatingPage, error, tokensQuery, entryOrigin, onlyForward>>
  /\ userStep
  /\ IF version = 1
     THEN UNCHANGED <<inflight, fetchCount, url>>
     ELSE searchEffect(inflight)

----------------------------------------------------------------------------
\* Sort header

\* Variant: the direction is not toggled
headerOrderAlwaysAsc(headerName) == "asc"
\* newOrder of tableHeaderClicked(event, headerName)
headerOrder(headerName) ==
  IF headerName = sortBy THEN (IF order = "asc" THEN "desc" ELSE "asc") ELSE "asc"
\* the sort field after tableHeaderClicked(event, headerName)
headerSortBy(headerName) == IF headerName = sortBy THEN sortBy ELSE headerName

tableHeaderClicked(headerName) ==
  /\ tableUsable
  /\ CanFetch
  /\ lastEvent' = Event("header", headerName, NoRequest, NoResponse, NoParams)
  /\ sortBy' = headerSortBy(headerName)
  /\ order' = headerOrder(headerName)
  /\ isSearchLoading' = TRUE
  /\ UNCHANGED <<version, maintenanceMode, fetchLimit, dashboard, wallet, mounted, tokens, hasAfter, hasBefore, searchText,
                 page, pageSearchAfter, isLoading, calculatingPage, error,
                 tokensQuery, entryOrigin, onlyForward>>
  /\ userStep
  /\ IF version = 1
     THEN /\ fetchCount' = fetchCount + 1
          /\ inflight' = inflight \cup {searchRequestV1(Null, headerName, order')}
          /\ url' = url
     ELSE searchEffect(inflight)

----------------------------------------------------------------------------
\* Page buttons

\* Variant: the cursor is only looked up, never calculated
nextSearchAfterLookupOnly == lookupSearchAfter(pageSearchAfter, page + 1)
\* nextPageClicked: the cursor sent for page + 1, the cached one unless it is
\* missing or empty, otherwise the sort key of the last displayed row
nextSearchAfter ==
  IF lookupSearchAfter(pageSearchAfter, page + 1) = <<>>
  THEN lastTokenSort(tokens)
  ELSE lookupSearchAfter(pageSearchAfter, page + 1)
\* nextPageClicked: setPageSearchAfter([...pageSearchAfter, newEntry]) when the
\* cursor had to be calculated
nextPageSearchAfter ==
  IF lookupSearchAfter(pageSearchAfter, page + 1) = <<>>
  THEN Append(pageSearchAfter, [page |-> page + 1, searchAfter |-> lastTokenSort(tokens)])
  ELSE pageSearchAfter
\* previousPageClicked: the cursor sent for page - 1
previousSearchAfter == lookupSearchAfter(pageSearchAfter, page - 1)

\* history: the query under which the cursor of page p was computed
cursorQueryOf(p) ==
  IF findIndex(pageSearchAfter, p) = 0 THEN NoQuery
  ELSE entryOrigin[findIndex(pageSearchAfter, p)].query
\* history: what a cursor-table entry is computed from
Origin(p, rows, query) == [page |-> p, rows |-> rows, query |-> query]

nextPageClicked ==
  /\ tableUsable
  /\ nextEnabled
  /\ CanFetch
  /\ calculatingPage' = TRUE
  /\ pageSearchAfter' = nextPageSearchAfter
  /\ entryOrigin' = IF pageSearchAfter' = pageSearchAfter THEN entryOrigin
                   ELSE Append(entryOrigin, Origin(page, tokens, tokensQuery))
  /\ fetchCount' = fetchCount + 1
  /\ LET cq == IF nextSearchAfter = <<>> THEN NoQuery
               ELSE IF pageSearchAfter' = pageSearchAfter THEN cursorQueryOf(page + 1)
               ELSE tokensQuery
         req == Request("next", searchText, sortBy, order, nextSearchAfter, page + 1,
                        Null, Null, Null, cq)
     IN /\ inflight' = inflight \cup {req}
        /\ lastEvent' = Event("next", Null, req, NoResponse, NoParams)
  /\ UNCHANGED <<version, maintenanceMode, fetchLimit, dashboard, wallet, mounted, url, tokens, hasAfter, hasBefore,
                 searchText, sortBy, order, page, isLoading, isSearchLoading, error,
                 tokensQuery, onlyForward>>
  /\ userStep

previousPageClicked ==
  /\ tableUsable
  /\ previousEnabled
  /\ CanFetch
  /\ calculatingPage' = TRUE
  /\ fetchCount' = fetchCount + 1
  /\ LET cq == IF previousSearchAfter = <<>> THEN NoQuery ELSE cursorQueryOf(page - 1)
         req == Request("previous", searchText, sortBy, order, previousSearchAfter, page - 1,
                        Null, Null, Null, cq)
     IN /\ inflight' = inflight \cup {req}
        /\ lastEvent' = Event("previous", Null, req, NoResponse, NoParams)
  /\ onlyForward' = FALSE
  /\ UNCHANGED <<version, maintenanceMode, fetchLimit, dashboard, wallet, mounted, url, tokens, hasAfter, hasBefore,
                 searchText, sortBy, order, page, pageSearchAfter, isLoading,
                 isSearchLoading, error, tokensQuery, entryOrigin>>
  /\ userStep

----------------------------------------------------------------------------
\* A fetch is answered: getTokens sets error and maps the rows, then the
\* caller's continuation sets the rest, with the values it captured.

\* Variant: the error of the response is dropped
getTokensErrorDropped(resp) == FALSE
\* setError(get(tokensRequest, 'error', false))
getTokensError(resp) == errorOf(resp)

\* Variant: previousPageClicked takes hasAfter from the response as well
resolvedHasAfterOfResponse(kind, gottenTokens) == gottenTokens.has_next
\* setHasAfter(...) of the three continuations
resolvedHasAfter(kind, gottenTokens) ==
  IF kind = "previous" THEN TRUE ELSE gottenTokens.has_next
\* Variant: previousPageClicked sets hasBefore like nextPageClicked does
resolvedHasBeforeAfterPageTurn(kind, targetPage) == kind # "search"
\* setHasBefore(...) of the three continuations
resolvedHasBefore(kind, targetPage) ==
  IF kind = "search" THEN FALSE
  ELSE IF kind = "next" THEN TRUE
  ELSE targetPage # 1
\* Variant: a search leaves the cursor table as it is
keptPageSearchAfter == pageSearchAfter
\* setPageSearchAfter([{ page: 1, searchAfter: [] }]) of a search
resetPageSearchAfter == << [page |-> 1, searchAfter |-> <<>>] >>

\* Variant: only the answer to the request issued last is shown
setTokensOfLastIssued(r, gottenTokens) ==
  IF r.id = fetchCount THEN gottenTokens.hits ELSE tokens
\* setTokens(tokens.hits) of the three continuations: the rows of the answered
\* request r, whichever requests were issued after it
setTokens(r, gottenTokens) == gottenTokens.hits

Resolve(r, resp) ==
  /\ r \in inflight
  /\ lastEvent' = Event("resolve", Null, r, resp, NoParams)
  /\ error' = getTokensError(resp)
  /\ tokens' = setTokens(r, dataOf(resp))
  /\ hasAfter' = resolvedHasAfter(r.kind, dataOf(resp))
  /\ hasBefore' = resolvedHasBefore(r.kind, r.targetPage)
  /\ page' = r.targetPage
  /\ IF r.kind = "search"
     THEN /\ isSearchLoading' = FALSE
          /\ pageSearchAfter' = resetPageSearchAfter
          /\ entryOrigin' = << Origin(0, <<>>, queryOf(r)) >>
          /\ UNCHANGED calculatingPage
     ELSE /\ calculatingPage' = FALSE
          /\ UNCHANGED <<isSearchLoading, pageSearchAfter, entryOrigin>>
  /\ tokensQuery' = queryOf(r)
  /\ UNCHANGED <<version, maintenanceMode, fetchLimit, dashboard, wallet, mounted, searchText, sortBy, order, isLoading,
                 onlyForward, sequential>>
  /\ IF version = 1
     THEN /\ url' = IF r.kind = "search"
                    THEN updateURL(r.urlText, r.urlSortBy, r.urlOrder)
                    ELSE url
          /\ fetchCount' = fetchCount
          /\ inflight' = inflight \ {r}
     ELSE searchEffect(inflight \ {r})

----------------------------------------------------------------------------
Next ==
  \/ Mount
  \/ onSearchButtonClicked
  \/ onSearchTextKeyUp
  \/ \E value \in Texts : onSearchTextChanged(value)
  \/ \E headerName \in Headers : tableHeaderClicked(headerName)
  \/ nextPageClicked
  \/ previousPageClicked
  \/ \E r \in inflight, resp \in Responses : Resolve(r, resp)

Spec == Init /\ [][Next]_vars

----------------------------------------------------------------------------
\* Long page-turn runs: the screen opened without query parameters, used with
\* the search button and the page buttons only, against a backend that answers
\* with a full page that has a successor, with no rows at all, or with an error.

DeepResponses ==
  { [error |-> FALSE, hasData |-> TRUE, hits |-> <<Row1, Row2>>, has_next |-> TRUE],
    [error |-> FALSE, hasData |-> TRUE, hits |-> <<>>, has_next |-> FALSE],
    ErrorResponse }

InitDeep ==
  /\ version \in {1, 2}
  /\ maintenanceMode = FALSE
  /\ url = NoParams
  /\ fetchLimit = MaxDeepFetches
  /\ InitState

NextDeep ==
  \/ Mount
  \/ onSearchButtonClicked
  \/ nextPageClicked
  \/ previousPageClicked
  \/ \E r \in inflight, resp \in DeepResponses : Resolve(r, resp)

SpecDeep == InitDeep /\ [][NextDeep]_vars

----------------------------------------------------------------------------
\* Properties

currentQuery == <<searchText, sortBy, order>>
searchInFlight == \E r \in inflight : r.kind = "search"
pagingReset == page = 1 /\ pageSearchAfter = << [page |-> 1, searchAfter |-> <<>>] >>
resolved(kind) == lastEvent.type = "resolve" /\ lastEvent.req.kind = kind

\* C1: every fetch sent with a non-empty cursor carries the query of the fetch
\* that returned the rows the cursor was taken from.
C1_CursorSentWithItsQuery ==
  \A r \in inflight : r.searchAfter # <<>> => queryOf(r) = r.cursorQuery

\* C2 (as claimed): after a change of the text by onSearchTextChanged that
\* starts no fetch, and after the search started by any other change of the
\* query has completed, page is 1 and the cursor table has no entry of another
\* page.
C2_AnyQueryChangeResetsPaging ==
  LET onlyPage1 == page = 1 /\ \A i \in 1..Len(pageSearchAfter) : pageSearchAfter[i].page = 1
  IN /\ (lastEvent.type = "textChanged" /\ inflight = {}) => onlyPage1
     /\ resolved("search") => onlyPage1

\* C2 (amended): a search submit or a sort-header click always has a search
\* fetch in flight, and when the response of a search fetch is applied page is
\* 1 and the cursor table is exactly the entry of page 1 with the empty cursor.
C2_SearchResetsPaging ==
  /\ lastEvent.type \in {"search", "header"} => searchInFlight
  /\ resolved("search") => pagingReset

\* C2 witness: a search started on page 2 has completed.
C2_Witness ==
  resolved("search") /\ lastEvent.req.fromPage = 2 /\ lastEvent.req.id > 1 /\ pagingReset

C4_NextPage ==
  [][ /\ ( /\ lastEvent'.type = "next"
           /\ inflight = {}
           /\ tokens # <<>>
           /\ findIndex(pageSearchAfter, page + 1) = 0 )
         => /\ fetchCount' = fetchCount + 1
            /\ \E r \in inflight' :
                 /\ inflight' = {r}
                 /\ r.kind = "next"
                 /\ queryOf(r) = currentQuery
                 /\ r.searchAfter = tokens[Len(tokens)].sort
                 /\ r.targetPage = page + 1
      /\ ( /\ lastEvent'.type = "resolve"
           /\ lastEvent'.req.kind = "next"
           /\ ~lastEvent'.resp.error )
         => /\ page' = lastEvent'.req.fromPage + 1
            /\ hasBefore'
            /\ hasAfter' = lastEvent'.resp.has_next
            /\ Len(tokens') = Len(lastEvent'.resp.hits)
            /\ \A i \in 1..Len(tokens') :
                 /\ tokens'[i].id = lastEvent'.resp.hits[i].id
                 /\ tokens'[i].sort = lastEvent'.resp.hits[i].sort
    ]_vars

\* C4 witness: a next-page fetch clicked on page 1 with a calculated cursor
\* has been answered with rows.
C4_Witness ==
  /\ resolved("next") /\ sequential
  /\ ~lastEvent.resp.error
  /\ lastEvent.req.searchAfter # <<>>
  /\ page = 2 /\ hasBefore /\ Len(tokens) = 2

\* C5: from page 1 after a search, next and then previous (each after the
\* fetch before it has completed) send the previous-page fetch with the empty
\* cursor and the query of the page-1 fetch of that search, and end on page 1
\* with hasBefore false.
C5_NextThenPreviousRestoresPage1 ==
  /\ ( /\ lastEvent.type = "previous"
       /\ sequential
       /\ lastEvent.req.targetPage = 1
       /\ Len(pageSearchAfter) = 2
       /\ queryOf(lastEvent.req) = tokensQuery )
     => /\ lastEvent.req.searchAfter = <<>>
        /\ queryOf(lastEvent.req) = entryOrigin[1].query
  /\ (resolved("previous") /\ sequential /\ lastEvent.req.targetPage = 1)
     => (page = 1 /\ ~hasBefore)

\* C6: when a fetch of any kind is answered with error = true, error is set,
\* no fetch is issued by the step that applies the answer, and while error is
\* set the results table is not rendered.
C6_ErrorShownNoRetry ==
  [][ /\ (lastEvent'.type = "resolve" /\ lastEvent'.resp.error)
         => /\ error'
            /\ fetchCount' = fetchCount
            /\ inflight' = inflight \ {lastEvent'.req}
      /\ error' => renderTokensTable' # "table"
    ]_vars

\* C6 witness: a previous-page fetch has been answered with an error.
C6_Witness ==
  resolved("previous") /\ lastEvent.resp.error /\ error /\ renderTokensTable = "error"

\* C7 (as claimed): once the user has started a search, error is false while
\* its fetch is in flight.
C7_ErrorClearedBeforeFetch ==
  lastEvent.type \in {"search", "header"} => ~error

\* C7 (amended): starting a search leaves error as it is; error changes only
\* when a response is applied, and is then the error flag of that response.
C7_ErrorFollowsResponse ==
  [][ /\ lastEvent'.type # "resolve" => error' = error
      /\ lastEvent'.type = "resolve" => error' = lastEvent'.resp.error
    ]_vars

\* C7 witness: a search was started while error is set, and its fetch is in
\* flight.
C7_Witness ==
  lastEvent.type = "search" /\ error /\ searchInFlight

\* C8: in maintenance mode tokensApi.getList is never called.
C8_NoFetchInMaintenance ==
  maintenanceMode => (fetchCount = 0 /\ inflight = {})

\* C8 witness: the component is mounted in maintenance mode.
C8_Witness ==
  maintenanceMode /\ mounted /\ renderSearchField = "maintenance" /\ renderTokensTable = "null"

\* C9: tableHeaderClicked(h) toggles the direction and keeps the sort field
\* when h is the active sort field, and otherwise makes h the sort field with
\* direction asc; it starts a search fetch, and when a search fetch is answered
\* page is 1, hasBefore is false and the cursor table is {1: empty cursor}.
C9_TableHeaderClicked ==
  [][ /\ lastEvent'.type = "header"
         => /\ (lastEvent'.arg = sortBy /\ order = "asc")
                 => (sortBy' = sortBy /\ order' = "desc")
            /\ (lastEvent'.arg = sortBy /\ order = "desc")
                 => (sortBy' = sortBy /\ order' = "asc")
            /\ lastEvent'.arg # sortBy
                 => (sortBy' = lastEvent'.arg /\ order' = "asc")
            /\ \E r \in inflight' \ inflight : r.kind = "search" /\ r.searchAfter = <<>>
      /\ (lastEvent'.type = "resolve" /\ lastEvent'.req.kind = "search")
         => (pagingReset' /\ ~hasBefore')
    ]_vars

\* C9 witness: the search started by a click on the inactive column "name" on
\* page 2 has completed.
C9_Witness ==
  /\ resolved("search") /\ lastEvent.req.fromPage = 2
  /\ sortBy = "name" /\ order = "asc"
  /\ pagingReset /\ ~hasBefore

\* C10: the mount effect outside maintenance mode issues exactly one fetch,
\* with the empty cursor and with each query field taken from the URL when
\* present and otherwise '', 'transaction_timestamp' and 'desc'.
C10_InitialQueryFromURL ==
  (lastEvent.type = "mount" /\ ~maintenanceMode) =>
    /\ fetchCount = 1
    /\ \E r \in inflight :
         /\ inflight = {r}
         /\ r.searchAfter = <<>>
         /\ r.text = GetParam(lastEvent.queryParams.searchText, "")
         /\ r.sortBy = GetParam(lastEvent.queryParams.sortBy, "transaction_timestamp")
         /\ r.order = GetParam(lastEvent.queryParams.order, "desc")

\* C11: the (searchText, sortBy, order) triple a search pushes to the URL is
\* the triple of its page-1 request to tokensApi.getList.
C11_PushedURLMatchesRequest ==
  /\ \A r \in inflight :
       r.kind = "search" => <<r.urlText, r.urlSortBy, r.urlOrder>> = queryOf(r)
  /\ (resolved("search") /\ version = 1)
     => url = updateURL(lastEvent.req.text, lastEvent.req.sortBy, lastEvent.req.order)

\* C12: whenever previousPageClicked runs on a page p > 1, the cursor table
\* has an entry for page p - 1.
C12_PreviousFindsCursor ==
  (lastEvent.type = "previous" /\ lastEvent.req.fromPage > 1)
    => findIndex(pageSearchAfter, lastEvent.req.targetPage) # 0

\* C13: responses are applied in completion order, with no check of the order
\* the requests were issued in: after any response the rows and the page are
\* those of the answered request, also when a later request was issued.
C13_AppliedInCompletionOrder ==
  lastEvent.type = "resolve"
    => /\ tokens = dataOf(lastEvent.resp).hits
       /\ page = lastEvent.req.targetPage
       /\ error = errorOf(lastEvent.resp)
\* No fetch is in flight and the rows shown are those of a request that was
\* not the last one issued.
C13_Witness ==
  /\ lastEvent.type = "resolve"
  /\ inflight = {}
  /\ lastEvent.req.id < fetchCount
  /\ tokens # <<>>
  /\ tokensQuery = queryOf(lastEvent.req)

\* C14: onSearchTextChanged changes only the search text: in every state, also
\* while a search fetch is in flight, it issues no fetch, pushes no URL and
\* leaves rows, page, hasAfter, hasBefore and the cursor table unchanged.
C14_TextChangeOnlyChangesText ==
  [][lastEvent'.type = "textChanged"
       => UNCHANGED <<inflight, fetchCount, url, tokens, page, hasAfter,
                      hasBefore, pageSearchAfter>>]_vars

\* C15: after a previousPageClicked fetch started on page p completes,
\* hasAfter is true whatever the response carried, hasBefore is (p-1 != 1) and
\* the page is p-1.
C15_PreviousPageResult ==
  resolved("previous")
    => /\ hasAfter = TRUE
       /\ hasBefore = (lastEvent.req.fromPage - 1 # 1)
       /\ page = lastEvent.req.fromPage - 1
\* A previous fetch started on page 3 is answered with an error and no rows.
C15_Witness ==
  /\ resolved("previous")
  /\ lastEvent.req.fromPage = 3
  /\ lastEvent.resp.error
  /\ ~lastEvent.resp.has_next
  /\ hasAfter /\ hasBefore /\ page = 2

\* C16: once a cursor for page N is stored, a later nextPageClicked towards
\* page N sends it unchanged and adds no second entry: the cursor table never
\* holds two entries for the same page number.
C16_OneEntryPerPage ==
  \A i, j \in 1..Len(pageSearchAfter) :
    pageSearchAfter[i].page = pageSearchAfter[j].page => i = j

----------------------------------------------------------------------------
\* Dashboard reducer (screens/TransactionList.js): 'dashboard_update' actions
\* on the store, the Tokens screen left alone.

MaxUpdates == 5
\* Window size imported from '../constants', scaled down
DASHBOARD_CHART_TIME == 3

\* action.payload: the metrics of one dashboard message
Times == {1, 2, 4}
Transactions == {0, 1, 3}
Payloads == [time : Times, transactions : Transactions]

\* Numbers that may be fractions: num / den in lowest terms, den > 0
Zero == [num |-> 0, den |-> 1]
abs(a) == IF a < 0 THEN 0 - a ELSE a
RECURSIVE gcd(_, _)
gcd(a, b) == IF b = 0 THEN a ELSE gcd(b, a % b)
\* a / b, b # 0
Divide(a, b) ==
  LET g == gcd(abs(a), abs(b))
      s == IF b < 0 THEN 0 - 1 ELSE 1
  IN [num |-> (s * a) \div g, den |-> (s * b) \div g]
\* Variant: the quotient is stored without the clamp
secondArgument(a, b) == b
\* Math.max(a, b)
MathMax(a, b) == IF a.num * b.den >= b.num * a.den THEN a ELSE b

\* Variant: the newest entry is removed
pop(list) == SubSeq(list, 1, Len(list) - 1)
\* data.shift()
shift(list) == Tail(list)

\* newData['txRate'], from the window after the push and the shift
txRate(window, newData) ==
  IF Len(window) = 1 THEN Zero
  ELSE LET beforeLastData == window[Len(window) - 1]
           timeDiff == beforeLastData.time - newData.time
           txDiff == beforeLastData.transactions - newData.transactions
       IN IF timeDiff = 0
          THEN beforeLastData.txRate
          ELSE MathMax(Zero, Divide(txDiff, timeDiff))

\* case 'dashboard_update' of rootReducer
dashboard_update(payload) ==
  /\ Len(arrivals) < MaxUpdates
  /\ LET pushed == Append(data, payload)
         window == IF Len(pushed) > DASHBOARD_CHART_TIME THEN shift(pushed) ELSE pushed
         newData == [time |-> payload.time,
                     transactions |-> payload.transactions,
                     date |-> payload.time * 1000,
                     txRate |-> txRate(window, payload)]
     IN /\ data' = [window EXCEPT ![Len(window)] = newData]
        /\ arrivals' = Append(arrivals, newData)
  /\ UNCHANGED <<version, maintenanceMode, mounted, url, state, inflight,
                 fetchCount, fetchLimit, hist, wallet>>

InitDashboard ==
  /\ version = 1
  /\ maintenanceMode = FALSE
  /\ url = NoParams
  /\ fetchLimit = MaxFetches
  /\ InitState

NextDashboard == \E payload \in Payloads : dashboard_update(payload)

SpecDashboard == InitDashboard /\ [][NextDashboard]_vars

\* C17: the data list never has more than DASHBOARD_CHART_TIME entries and
\* holds the most recent payloads in arrival order; on overflow exactly the
\* oldest entry is removed.
C17_SlidingWindow ==
  /\ Len(data) <= DASHBOARD_CHART_TIME
  /\ Len(data) = IF Len(arrivals) < DASHBOARD_CHART_TIME
                 THEN Len(arrivals) ELSE DASHBOARD_CHART_TIME
  /\ \A i \in 1..Len(data) : data[i] = arrivals[Len(arrivals) - Len(data) + i]
\* More updates than the window holds have arrived and the first is gone.
C17_Witness ==
  /\ Len(arrivals) > DASHBOARD_CHART_TIME
  /\ Len(data) = DASHBOARD_CHART_TIME
  /\ data[1] = arrivals[Len(arrivals) - DASHBOARD_CHART_TIME + 1]
  /\ data[1] # arrivals[1]

\* C18: every stored sample has txRate >= 0: 0 when it is the only sample of
\* the window, the previous sample's txRate when the times are equal, and
\* otherwise max(0, (prev.transactions - new.transactions) / (prev.time - new.time)).
C18_TxRate ==
  \A k \in 1..Len(arrivals) :
    LET new == arrivals[k]
    IN /\ new.txRate.den > 0
       /\ new.txRate.num >= 0
       /\ IF k = 1 \/ DASHBOARD_CHART_TIME = 1
          THEN new.txRate.num = 0
          ELSE LET prev == arrivals[k - 1]
                   timeDiff == prev.time - new.time
                   txDiff == prev.transactions - new.transactions
               IN IF timeDiff = 0
                  THEN new.txRate = prev.txRate
                  ELSE IF txDiff * timeDiff <= 0
                  THEN new.txRate.num = 0
                  ELSE new.txRate.num * timeDiff = txDiff * new.txRate.den
\* A positive rate that is no whole number is carried over a sample with the
\* same time, and a later quotient is negative and stored as 0.
C18_Witness ==
  /\ \E k \in 2..Len(arrivals) :
       /\ arrivals[k].time = arrivals[k - 1].time
       /\ arrivals[k].txRate.num > 0
       /\ arrivals[k].txRate.den > 1
  /\ \E k \in 2..Len(arrivals) :
       /\ (arrivals[k - 1].time - arrivals[k].time)
            * (arrivals[k - 1].transactions - arrivals[k].transactions) < 0
       /\ arrivals[k].txRate = Zero

\* C19: with every response applied in one step and previous-page clicks
\* taken only while hasBefore is true, page >= 1 and hasBefore = (page != 1)
\* in every reachable state, for any interleaving of in-flight fetches.
C19_PageAndHasBefore ==
  /\ page >= 1
  /\ hasBefore = (page # 1)
\* A next-page response arrives after the response of a search issued later.
C19_Witness ==
  /\ resolved("next")
  /\ lastEvent.req.id < fetchCount
  /\ inflight = {}
  /\ tokensQuery = queryOf(lastEvent.req)
  /\ page = 2
  /\ hasBefore

\* C20: once every response has been delivered the controller is idle:
\* isSearchLoading and calculatingPage are both false, in both versions.
C20_IdleWhenAllDelivered ==
  inflight = {} => (~isSearchLoading /\ ~calculatingPage)
\* Version 2: two searches were in flight together and the one issued first
\* was answered last.
C20_Witness ==
  /\ version = 2
  /\ resolved("search")
  /\ lastEvent.req.id < fetchCount
  /\ inflight = {}
  /\ ~isSearchLoading
  /\ ~calculatingPage

----------------------------------------------------------------------------
\* Wallet screen (unnamed/part_000): the lock button, the answers of
\* walletApi.lock() and the messages of the 'wallet' WebSocket channel, the
\* Tokens screen and the dashboard left alone.

\* helpers.checkWalletLock (not part of the sources) answers with the wallet's
\* type and calls lock or unlock.
WalletTypes == {"software", "hardware"}
\* wsData.type of the messages, one of them a type handleWebsocket does not know
WebsocketTypes ==
  {"wallet:balance_updated", "wallet:output_received", "wallet:output_spent",
   "wallet:keys_generated", "wallet:gap_limit", "wallet:other"}
\* wsData.keys_count
KeysCounts == {1, 20}
WebsocketMessages ==
  { [type |-> t, keys_count |-> n] : t \in WebsocketTypes, n \in KeysCounts }
\* What walletApi.lock() resolves to
LockResponses == { [success |-> TRUE], [success |-> FALSE] }

\* `${keysCount} new keys were generated! Backup your wallet`
backupKeysWarning(keysCount) ==
  <<keysCount, " new keys were generated! Backup your wallet">>
gapLimitWarning ==
  <<"You have achieved the limit of unused addresses in sequence. Use this one to generate more.">>

\* Everything but the Wallet stays as it is
walletOnly ==
  UNCHANGED <<version, maintenanceMode, mounted, url, state, inflight,
              fetchCount, fetchLimit, hist, dashboard>>

componentDidMount ==
  /\ ~walletMounted
  /\ walletMounted' = TRUE
  /\ checkPending' = TRUE
  /\ walletEvent' = [type |-> "componentDidMount"]
  /\ UNCHANGED <<walletType, lockDisabled, warning, locked, lockRequests>>
  /\ walletOnly

\* helpers.checkWalletLock(this.unlock, this.lock, this.setType) answers
checkWalletLock(type, isLocked) ==
  /\ checkPending
  /\ checkPending' = FALSE
  /\ walletType' = type
  /\ locked' = IF isLocked THEN "true" ELSE "false"
  /\ walletEvent' = [type |-> "checkWalletLock"]
  /\ UNCHANGED <<walletMounted, lockDisabled, warning, lockRequests>>
  /\ walletOnly

\* WalletUnlock, rendered while locked === true, calls its unlock prop
unlock ==
  /\ walletMounted
  /\ locked = "true"
  /\ locked' = "false"
  /\ walletEvent' = [type |-> "unlock"]
  /\ UNCHANGED <<walletMounted, checkPending, walletType, lockDisabled, warning,
                 lockRequests>>
  /\ walletOnly

\* renderBtns: the lock button is rendered while locked === false and can be
\* clicked unless disabled
lockButtonUsable == walletMounted /\ locked = "false" /\ ~lockDisabled

\* this.setState({ lockDisabled: true }, () => walletApi.lock()...): the value
\* of lockDisabled when the callback calls walletApi.lock()
lockDisabledAtCall == lockDisabled'

willLockWallet ==
  /\ lockButtonUsable
  /\ lockDisabled' = TRUE
  /\ lockRequests' = lockRequests \cup {[lockDisabledAtCall |-> lockDisabledAtCall]}
  /\ walletEvent' = [type |-> "willLockWallet"]
  /\ UNCHANGED <<walletMounted, checkPending, walletType, warning, locked>>
  /\ walletOnly

\* Variant: any answer locks the wallet
lockedAfterAnyResponse(res) == "true"
\* if (res.success) { this.lock(); }
lockedAfterResponse(res) == IF res.success THEN "true" ELSE locked

\* walletApi.lock() resolves: the first callback of then
lockResolved(r, res) ==
  /\ r \in lockRequests
  /\ lockRequests' = lockRequests \ {r}
  /\ lockDisabled' = FALSE
  /\ locked' = lockedAfterResponse(res)
  /\ walletEvent' = [type |-> "lockResolved", success |-> res.success]
  /\ UNCHANGED <<walletMounted, checkPending, walletType, warning>>
  /\ walletOnly

\* walletApi.lock() is rejected: the second callback of then, console.log(e)
lockRejected(r) ==
  /\ r \in lockRequests
  /\ lockRequests' = lockRequests \ {r}
  /\ walletEvent' = [type |-> "lockRejected"]
  /\ UNCHANGED <<walletMounted, checkPending, walletType, lockDisabled, warning, locked>>
  /\ walletOnly

\* this.setState({ warning: message }) of showWarning, for the two message
\* types that warn; the other types reach the balance and history nodes only
warningAfter(wsData) ==
  IF wsData.type = "wallet:keys_generated" THEN backupKeysWarning(wsData.keys_count)
  ELSE IF wsData.type = "wallet:gap_limit" THEN gapLimitWarning
  ELSE warning

handleWebsocket(wsData) ==
  /\ walletMounted
  /\ warning' = warningAfter(wsData)
  /\ walletEvent' = [type |-> "handleWebsocket", wsType |-> wsData.type]
  /\ UNCHANGED <<walletMounted, checkPending, walletType, lockDisabled, locked,
                 lockRequests>>
  /\ walletOnly

InitWallet ==
  /\ version = 1
  /\ maintenanceMode = FALSE
  /\ url = NoParams
  /\ fetchLimit = MaxFetches
  /\ InitState

NextWallet ==
  \/ componentDidMount
  \/ \E type \in WalletTypes, isLocked \in BOOLEAN : checkWalletLock(type, isLocked)
  \/ unlock
  \/ willLockWallet
  \/ \E r \in lockRequests, res \in LockResponses : lockResolved(r, res)
  \/ \E r \in lockRequests : lockRejected(r)
  \/ \E wsData \in WebsocketMessages : handleWebsocket(wsData)

SpecWallet == InitWallet /\ [][NextWallet]_vars

\* C21: lockDisabled is true exactly while a lock request started by
\* willLockWallet is outstanding: it is true when walletApi.lock() is called
\* and false again once the request has finished, resolved or rejected.
C21_LockDisabledWhileOutstanding ==
  /\ lockDisabled = (lockRequests # {})
  /\ \A r \in lockRequests : r.lockDisabledAtCall

\* C22: locked changes only through lock() and unlock(): the answer of
\* walletApi.lock() sets it to true only when success is true, an answer with
\* success false or a rejected request leaves it unchanged, and so does every
\* message handled by handleWebsocket, of whatever type.
C22_LockedChangesOnlyByLockUnlock ==
  [][/\ locked' # locked
          => walletEvent'.type \in {"checkWalletLock", "unlock", "lockResolved"}
     /\ walletEvent'.type = "lockResolved"
          => locked' = IF walletEvent'.success THEN "true" ELSE locked
     /\ walletEvent'.type \in {"lockRejected", "handleWebsocket", "willLockWallet"}
          => locked' = locked]_vars
\* A lock request was answered with success false, after a WebSocket message
\* had set a warning, and the wallet is still unlocked.
C22_Witness ==
  /\ walletEvent.type = "lockResolved"
  /\ ~walletEvent.success
  /\ warning # <<>>
  /\ locked = "false"

====
